---- MODULE Spec2Model ----
(***************************************************************************)
(* A model of src/algos/dqn.py: the ExperienceBuffer ring buffer, the      *)
(* epsilon-greedy policy, the learner step and the train/evaluate driver   *)
(* of class DQN.                                                           *)
(*                                                                         *)
(* Numbers.  Tensors hold float32 / int64 values; the model draws every    *)
(* observation, reward and action value from small sets of integers, all   *)
(* exactly representable, so a tensor assignment keeps the value it is     *)
(* given.  gamma is the rational gamma / GammaDen and every bootstrap      *)
(* target is kept scaled by GammaDen.                                      *)
(***************************************************************************)
EXTENDS Integers, Sequences, FiniteSets, Bags, TLC

(***************************************************************************)
(* Bounds of the model.                                                    *)
(***************************************************************************)
MaxSize == 3      \* buffer capacities 0..MaxSize
MaxStores == 4    \* store calls made by the direct caller of the buffer
MaxInput == 3     \* the direct caller's transitions are numbered 0..MaxInput
MaxBatch == 4     \* sample sizes 0..MaxBatch asked by the direct caller

MaxBufferSize == 2 \* the driver's buffer_size 0..MaxBufferSize
MaxEpochs == 2    \* train_epoch calls made by the driver's caller
MaxEpLen == 2     \* steps the time limit leaves after the warm-up, in SpecTrain

(***************************************************************************)
(* Numbers of the program.                                                 *)
(***************************************************************************)
BatchSize == 100  \* self.exp_buf.sample(100)
WarmupSteps == 6  \* for _ in range(6)
Times == 20       \* evaluate(self, times=20, ...)
RandDen == 20     \* random.random() is drawn from {0, 1, .., RandDen-1} / RandDen
Epsilon == 1      \* 0.05, in units of 1 / RandDen
GammaDen == 100   \* gamma is gamma / GammaDen
GammaDefault == 99 \* gamma=.99

(***************************************************************************)
(* The values the model draws from.                                        *)
(***************************************************************************)
Obs == {0, 1}                  \* observations
Actions == {0, 1}              \* range(self.num_actions)
NumActions == Cardinality(Actions)
Rewards == {0, 1}              \* rewards an environment may pay
Params == {0, 1, 2, 3}         \* parameter vectors of the value network
Gammas == {0, 50, GammaDefault}    \* gamma, in units of 1 / GammaDen
EpochSteps == {0, 1, 2}        \* epoch_steps

VARIABLES
    \* ExperienceBuffer
    size, init_states, actions, rewards, next_states, non_terminal, full, i,
    \* the outcome of the latest call made on the buffer by its direct caller
    ret,
    \* history: the transitions passed to the successful store calls, in order,
    \* and the slots those calls wrote
    log, written,
    \* DQN: constructor arguments and fields
    atari, epoch_steps, gamma, epoch, theta, grad, opt_steps, writer,
    \* the environment (an external collaborator) behind env.reset / env.step
    env_obs, env_over, env_t, env_horizon, env_rewards,
    \* the running call: its position and the locals of train_epoch / evaluate
    pc, step_i, obs, init_obs, act, rew, done, warm, ep_i, tot_rew, rews, result,
    \* history of the driver: the latest learner step, what followed the latest
    \* env.step of train_epoch, the successful store calls, and whether env.step
    \* was called on an episode that had already ended; per slot, the is_terminal
    \* argument of the store call that wrote it
    learned, phase, stores, misuse, terminal

bufvars == <<size, init_states, actions, rewards, next_states, non_terminal, full, i>>
callvars == <<ret, log, written>>
dqnvars == <<atari, epoch_steps, gamma, epoch, theta, grad, opt_steps, writer>>
envvars == <<env_obs, env_over, env_t, env_horizon, env_rewards>>
trainvars == <<step_i, obs, init_obs, act, rew, done, warm>>
evalvars == <<ep_i, tot_rew, rews, result>>
histvars == <<learned, phase, stores, misuse, terminal>>
vars == <<size, init_states, actions, rewards, next_states, non_terminal, full, i,
          ret, log, written,
          atari, epoch_steps, gamma, epoch, theta, grad, opt_steps, writer,
          env_obs, env_over, env_t, env_horizon, env_rewards,
          pc, step_i, obs, init_obs, act, rew, done, warm, ep_i, tot_rew, rews, result,
          learned, phase, stores, misuse, terminal>>

(***************************************************************************)
(* ExperienceBuffer                                                        *)
(***************************************************************************)
Slots == 0..(size - 1)

\* torch.zeros(size): every slot holds the placeholder 0
Zeros(n) == [k \in 0..(n - 1) |-> 0]

\* ExperienceBuffer.__init__(size, state_size)
BufferInit(n) ==
    /\ size = n
    /\ init_states = Zeros(n)
    /\ actions = Zeros(n)
    /\ rewards = Zeros(n)
    /\ next_states = Zeros(n)
    /\ non_terminal = Zeros(n)
    /\ full = FALSE
    /\ i = 0

\* assert self.i < self.size
StorePreconditionLoose == i <= size
StorePrecondition == i < size

\* int(not next_terminal)
NonTerminalFlipped(next_terminal) == IF next_terminal THEN 1 ELSE 0
NonTerminal(next_terminal) == IF next_terminal THEN 0 ELSE 1

\* the slot the five assignments of store write: self.i
WriteSlot == i

\* self.i += 1; if self.i == self.size: self.i = 0
NextCursorNoWrap(c) == IF c + 1 = size THEN c ELSE c + 1
NextCursor(c) == IF c + 1 = size THEN 0 ELSE c + 1

\* if self.i == self.size: self.full = True
NextFullEarly(c) == full \/ c + 2 >= size
NextFull(c) == full \/ c + 1 = size

\* the body of store after its assertion
StoreWritesPartial(init_state, action, reward, next_state, next_terminal) ==
    /\ init_states' = [init_states EXCEPT ![WriteSlot] = init_state]
    /\ actions' = [actions EXCEPT ![WriteSlot] = action]
    /\ rewards' = [rewards EXCEPT ![WriteSlot] = reward]
    /\ next_states' = next_states
    /\ non_terminal' = [non_terminal EXCEPT ![WriteSlot] = NonTerminal(next_terminal)]
    /\ i' = NextCursor(i)
    /\ full' = NextFull(i)
    /\ size' = size

StoreWrites(init_state, action, reward, next_state, next_terminal) ==
    /\ init_states' = [init_states EXCEPT ![WriteSlot] = init_state]
    /\ actions' = [actions EXCEPT ![WriteSlot] = action]
    /\ rewards' = [rewards EXCEPT ![WriteSlot] = reward]
    /\ next_states' = [next_states EXCEPT ![WriteSlot] = next_state]
    /\ non_terminal' = [non_terminal EXCEPT ![WriteSlot] = NonTerminal(next_terminal)]
    /\ i' = NextCursor(i)
    /\ full' = NextFull(i)
    /\ size' = size

\* indexes = np.arange(self.size) if self.full else np.arange(self.i)
IndexesAll == Slots
Indexes == IF full THEN Slots ELSE 0..(i - 1)

\* size = min(size, len(indexes))
ClampNone(k, n) == k
Clamp(k, n) == IF k < n THEN k ELSE n

\* np.random.choice(indexes, size=k, replace=False) raises ValueError when more
\* samples are asked than the population holds (in particular any sample of an
\* empty population) or when k is negative; a sample of size 0 is always served
ChoiceRaises(pop, k) == k < 0 \/ k > Cardinality(pop)

\* ... and otherwise returns k pairwise distinct elements of pop in some order
ChoiceRepeats(pop, k) == [1..k -> pop]
Choice(pop, k) ==
    {c \in [1..k -> pop] : \A a, b \in 1..k : a # b => c[a] # c[b]}

\* tensor[chosen]: the rows of an array at the chosen indexes
Gather(arr, chosen) == [r \in 1..Len(chosen) |-> arr[chosen[r]]]

NoChoice == << >>

\* the dict sample returns: the five arrays gathered at the same indexes
Reversed(chosen) == [r \in 1..Len(chosen) |-> chosen[Len(chosen) + 1 - r]]
ReturnedMisaligned(kind, asked, chosen) ==
    [kind |-> kind, asked |-> asked, chosen |-> chosen,
     init_states |-> Gather(init_states, chosen),
     actions |-> Gather(actions, chosen),
     rewards |-> Gather(rewards, Reversed(chosen)),
     next_states |-> Gather(next_states, chosen),
     non_terminal |-> Gather(non_terminal, chosen)]
Returned(kind, asked, chosen) ==
    [kind |-> kind, asked |-> asked, chosen |-> chosen,
     init_states |-> Gather(init_states, chosen),
     actions |-> Gather(actions, chosen),
     rewards |-> Gather(rewards, chosen),
     next_states |-> Gather(next_states, chosen),
     non_terminal |-> Gather(non_terminal, chosen)]

\* the outcomes of sample(k): a minibatch, or the exception of np.random.choice
SampleOutcomes(k) ==
    IF ChoiceRaises(Indexes, Clamp(k, Cardinality(Indexes)))
    THEN {Returned("ValueError", k, NoChoice)}
    ELSE {Returned("batch", k, c) : c \in Choice(Indexes, Clamp(k, Cardinality(Indexes)))}

(***************************************************************************)
(* The value network.  Its parameters are one of the vectors of Params;  *)
(* vector th denotes the table of action values whose entry for            *)
(* observation o and action a is 10 when the binary digit                 *)
(* o * NumActions + a of th is 1, else 0.  Both QNetwork and QNetworkAtari map one      *)
(* observation to one value per action; QNetworkAtari's are >= 0.          *)
(***************************************************************************)
Digit(th, d) == (th \div (2 ^ d)) % 2

\* self.qnet.forward(obs): one value per action
Forward(th, o) ==
    [a \in Actions |->
        IF Digit(th, o * NumActions + a) = 1 THEN 10 ELSE 0]

\* torch.max(nextqs, dim=1): the largest value of a row
MaxQ(q) == CHOOSE v \in {q[a] : a \in Actions} : \A a \in Actions : q[a] <= v

\* torch.argmax(qvals).item(): the first index holding the largest value
ArgMaxLast(q) ==
    CHOOSE a \in Actions : q[a] = MaxQ(q) /\ \A b \in Actions : b > a => q[b] < q[a]
ArgMax(q) ==
    CHOOSE a \in Actions : q[a] = MaxQ(q) /\ \A b \in Actions : b < a => q[b] < q[a]

\* random.random() < epsilon, for the draws u / RandDen of random.random()
ExploresAlways(u, eps) == u <= eps
Explores(u, eps) == u < eps

\* DQN.choose_action(obs, epsilon): the action returned, and whether the network
\* was evaluated, for every draw of random.random() and of random.choice
ChooseAction(o, eps) ==
    {[act |-> a, consulted |-> FALSE] :
        a \in {b \in Actions : \E u \in 0..(RandDen - 1) : Explores(u, eps)}}
    \cup
    {[act |-> ArgMax(Forward(theta, o)), consulted |-> TRUE] :
        u \in {v \in 0..(RandDen - 1) : ~Explores(v, eps)}}

(***************************************************************************)
(* The environment: at each step any observation, any reward of           *)
(* env_rewards and any done signal; an episode lasts at most env_horizon   *)
(* steps.  What env.step returns once the episode has ended is left open   *)
(* by the gym interface: any observation, reward and done signal.          *)
(***************************************************************************)
\* env.reset() returning observation o
EnvReset(o) ==
    /\ o \in Obs
    /\ env_obs' = o
    /\ env_over' = FALSE
    /\ env_t' = 0
    /\ UNCHANGED <<env_horizon, env_rewards>>

\* env.step(a) returning (o, r, d, _)
EnvStep(a, o, r, d) ==
    /\ o \in Obs /\ r \in env_rewards /\ d \in BOOLEAN
    /\ (~env_over /\ env_t + 1 >= env_horizon) => d
    /\ env_obs' = o
    /\ env_over' = (env_over \/ d)
    /\ env_t' = (IF env_t < env_horizon THEN env_t + 1 ELSE env_t)
    /\ UNCHANGED <<env_horizon, env_rewards>>
    /\ misuse' = (misuse \/ env_over)

(***************************************************************************)
(* The learner: DQN.qnet_loss and the three lines around it in train_epoch *)
(***************************************************************************)
\* F.one_hot(d["actions"], self.num_actions).float(): one row of the mask
OneHot(a) == [b \in Actions |-> IF b = a THEN 1 ELSE 0]

RECURSIVE SumOver(_, _)
SumOver(f, S) ==
    IF S = {} THEN 0
    ELSE LET x == CHOOSE y \in S : TRUE IN f[x] + SumOver(f, S \ {x})

\* qs = torch.sum(action_mask * all_qs, dim=1): one row
MaskedAll(mask, all_qs) == SumOver([a \in Actions |-> all_qs[a]], Actions)
Masked(mask, all_qs) == SumOver([a \in Actions |-> mask[a] * all_qs[a]], Actions)

\* ys = d["rewards"] + d["non_terminal"] * self.gamma * maxq: one row, times GammaDen
TargetNoMask(reward, nt, maxq) == reward * GammaDen + gamma * maxq
Target(reward, nt, maxq) == reward * GammaDen + nt * gamma * maxq

\* ys is built from the output of self.qnet.forward and handed to the loss as it
\* is: lines 150-152 hold no .detach() and no torch.no_grad(), so ys stays in the
\* autograd graph of the forward pass on the next states
TargetInGraph == TRUE

\* the minibatch rows at `chosen` and the tensors qnet_loss derives from them
Minibatch(chosen) ==
    LET n == Len(chosen)
        maxq == [r \in 1..n |-> MaxQ(Forward(theta, next_states[chosen[r]]))]
        ys == [r \in 1..n |->
                 Target(rewards[chosen[r]], non_terminal[chosen[r]], maxq[r])]
        qs == [r \in 1..n |->
                 GammaDen * Masked(OneHot(actions[chosen[r]]),
                                   Forward(theta, init_states[chosen[r]]))]
    IN [chosen |-> chosen, theta |-> theta,
        init_states |-> Gather(init_states, chosen),
        actions |-> Gather(actions, chosen),
        rewards |-> Gather(rewards, chosen),
        next_states |-> Gather(next_states, chosen),
        non_terminal |-> Gather(non_terminal, chosen),
        terminal |-> Gather(terminal, chosen),
        maxq |-> maxq, ys |-> ys, qs |-> qs]

\* loss.backward() on mse(qs, ys): the gradient reaches the parameters through
\* the forward pass on init_states with factor 2 (qs - ys) / n per row, and
\* through the forward pass on next_states, when ys is in the graph, with
\* factor -2 (qs - ys) non_terminal gamma / n per row.  Recorded: through which
\* of the two passes a nonzero gradient arrived.
Backward(b) ==
    LET rows == 1..Len(b.chosen)
    IN [predicted |-> \E r \in rows : b.qs[r] # b.ys[r],
        target |-> TargetInGraph /\
                   \E r \in rows : (b.qs[r] - b.ys[r]) * b.non_terminal[r] * gamma # 0]

NoGrad == [predicted |-> FALSE, target |-> FALSE]
NoBatch == Minibatch(<< >>)

(***************************************************************************)
(* The direct caller of the buffer: any capacity, any interleaving of      *)
(* store and sample calls.  Transition j of the caller has reward j + 1    *)
(* and its other fields vary with j.                                       *)
(***************************************************************************)
Input(j) ==
    [init |-> j % 2, act |-> j % NumActions, rew |-> j + 1,
     next |-> (j + 1) % 2, term |-> (j \div 2) % 2 = 1]

\* no DQN object and no environment: the buffer is used on its own
NoDriver ==
    /\ atari = TRUE /\ epoch_steps = 0 /\ gamma = GammaDefault /\ epoch = 0
    /\ theta = 0 /\ grad = NoGrad /\ opt_steps = 0 /\ writer = << >>
    /\ env_obs = 0 /\ env_over = TRUE /\ env_t = 0 /\ env_horizon = 0
    /\ env_rewards = {}
    /\ pc = "caller"
    /\ step_i = 0 /\ obs = 0 /\ init_obs = 0 /\ act = 0 /\ rew = 0
    /\ done = FALSE /\ warm = 0
    /\ ep_i = 0 /\ tot_rew = 0 /\ rews = EmptyBag /\ result = "None"
    /\ phase = "idle" /\ stores = 0 /\ misuse = FALSE

InitBuf ==
    /\ \E n \in 0..MaxSize : BufferInit(n)
    /\ ret = Returned("new", 0, NoChoice)
    /\ log = << >>
    /\ written = {}
    /\ terminal = [k \in Slots |-> FALSE]
    /\ NoDriver
    /\ learned = NoBatch

drivervars ==
    <<atari, epoch_steps, gamma, epoch, theta, grad, opt_steps, writer,
      env_obs, env_over, env_t, env_horizon, env_rewards,
      pc, step_i, obs, init_obs, act, rew, done, warm, ep_i, tot_rew, rews, result,
      learned, phase, stores, misuse>>

\* exp_buf.store(init, act, rew, next, term), the assertion passing
CallStore ==
    /\ pc = "caller"
    /\ Len(log) < MaxStores
    /\ StorePrecondition
    /\ \E j \in 0..MaxInput :
        /\ StoreWrites(Input(j).init, Input(j).act, Input(j).rew,
                       Input(j).next, Input(j).term)
        /\ log' = Append(log, Input(j))
        /\ written' = written \cup {WriteSlot}
        /\ terminal' = [terminal EXCEPT ![WriteSlot] = Input(j).term]
    /\ ret' = Returned("None", 0, NoChoice)
    /\ UNCHANGED drivervars

\* exp_buf.store(...), the assertion failing
CallStoreFails ==
    /\ pc = "caller"
    /\ ~StorePrecondition
    /\ ret' = Returned("AssertionError", 0, NoChoice)
    /\ UNCHANGED <<bufvars, log, written, terminal, drivervars>>

\* exp_buf.sample(k).  A sample repeated with no store in between meets the
\* same buffer and is not explored again.
CallSample ==
    /\ pc = "caller"
    /\ ret.kind # "batch"
    /\ \E k \in 0..MaxBatch : ret' \in SampleOutcomes(k)
    /\ UNCHANGED <<bufvars, log, written, terminal, drivervars>>

NextBuf == CallStore \/ CallStoreFails \/ CallSample

SpecBuf == InitBuf /\ [][NextBuf]_vars

(***************************************************************************)
(* DQN.__init__                                                            *)
(***************************************************************************)
NoCall ==
    /\ step_i = 0 /\ obs = 0 /\ init_obs = 0 /\ act = 0 /\ rew = 0
    /\ done = FALSE /\ warm = 0
    /\ ep_i = 0 /\ tot_rew = 0 /\ rews = EmptyBag /\ result = "None"
    /\ phase = "idle" /\ stores = 0 /\ misuse = FALSE
    /\ ret = Returned("new", 0, NoChoice)
    /\ log = << >>
    /\ written = {}
    /\ terminal = [k \in Slots |-> FALSE]
    /\ learned = NoBatch

\* DQN(env, atari=True, gamma, epoch_steps, writer, buffer_size): the visual
\* variant, whose replay store takes the observation shape [84, 84, 4]
InitDQN(horizons, pays, sizes, steps, gammas, thetas) ==
    /\ atari = TRUE
    /\ \E n \in sizes : BufferInit(n)
    /\ theta \in thetas
    /\ grad = NoGrad
    /\ opt_steps = 0
    /\ gamma \in gammas
    /\ epoch_steps \in steps
    /\ writer = << >>
    /\ epoch = 0
    /\ env_obs = 0 /\ env_over = TRUE /\ env_t = 0
    /\ env_horizon \in horizons /\ env_rewards = pays
    /\ pc = "idle"
    /\ NoCall

\* self.obs_dim: env.observation_space.shape[0], an int, which only the visual
\* variant replaces by the list [84, 84, 4]
ObsDimOf(is_atari) ==
    IF is_atari THEN [type |-> "list", value |-> <<84, 84, 4>>]
    ELSE [type |-> "int", value |-> <<4>>]

\* ExperienceBuffer.__init__: torch.zeros([size] + state_size) concatenates a
\* list with state_size, which raises TypeError unless state_size is a list
ZerosRaises(state_size) == state_size.type # "list"

\* DQN(env, atari, gamma, epoch_steps, writer, buffer_size) run to its end, or
\* to the TypeError of ExperienceBuffer.__init__: then no driver and no replay
\* store exist, and the state holds placeholders for their fields
InitDQNAny(is_atari, horizons, pays, sizes, steps, gammas, thetas) ==
    IF ZerosRaises(ObsDimOf(is_atari))
    THEN /\ atari = is_atari
         /\ BufferInit(0)
         /\ theta = 0 /\ grad = NoGrad /\ opt_steps = 0
         /\ gamma = GammaDefault /\ epoch_steps = 0
         /\ writer = << >> /\ epoch = 0
         /\ env_obs = 0 /\ env_over = TRUE /\ env_t = 0
         /\ env_horizon \in horizons /\ env_rewards = pays
         /\ pc = "TypeError"
         /\ NoCall
    ELSE /\ atari = is_atari
         /\ InitDQN(horizons, pays, sizes, steps, gammas, thetas)

(***************************************************************************)
(* DQN.train_epoch                                                         *)
(***************************************************************************)
\* while i < self.epoch_steps
OuterGuardOnce(n) == n = 0
OuterGuard(n) == n < epoch_steps

\* while (not done) and (i < self.epoch_steps)
InnerGuardNoBudget(d, n) == ~d
InnerGuard(d, n) == ~d /\ n < epoch_steps

\* what follows exp_buf.store(...) in the loop body: the learner step
AfterStoreSkip == "inner"
AfterStore == "learn"

\* step_num = i + (self.epoch-1)*self.epoch_steps
StepNumNoOffset(n) == n
StepNum(n) == n + (epoch - 1) * epoch_steps

\* self.epoch += 1; i = 0
TrainEpochCall ==
    /\ pc = "idle"
    /\ epoch < MaxEpochs
    /\ epoch' = epoch + 1
    /\ step_i' = 0
    /\ phase' = "idle"
    /\ pc' = "outer"
    /\ UNCHANGED <<bufvars, callvars, envvars, evalvars>>
    /\ UNCHANGED <<atari, epoch_steps, gamma, theta, grad, opt_steps, writer>>
    /\ UNCHANGED <<obs, init_obs, act, rew, done, warm>>
    /\ UNCHANGED <<learned, stores, misuse, terminal>>

\* the outer loop entered: obs = torch.tensor(self.env.reset(), ...)
TrainReset ==
    /\ pc = "outer"
    /\ OuterGuard(step_i)
    /\ \E o \in Obs : EnvReset(o) /\ obs' = o
    /\ warm' = 0
    /\ pc' = "warmup"
    /\ UNCHANGED <<bufvars, callvars, dqnvars, evalvars, histvars>>
    /\ UNCHANGED <<step_i, init_obs, act, rew, done>>

\* for _ in range(6): _ = self.env.step(0); after the last one, done = False
WarmupStep ==
    /\ pc = "warmup"
    /\ warm < WarmupSteps
    /\ \E o \in Obs, r \in env_rewards, d \in BOOLEAN : EnvStep(0, o, r, d)
    /\ warm' = warm + 1
    /\ phase' = "warmup_step"
    /\ IF warm + 1 = WarmupSteps
       THEN done' = FALSE /\ pc' = "inner"
       ELSE done' = done /\ pc' = "warmup"
    /\ UNCHANGED <<bufvars, callvars, dqnvars, evalvars>>
    /\ UNCHANGED <<step_i, obs, init_obs, act, rew>>
    /\ UNCHANGED <<learned, stores, terminal>>

\* the inner loop entered: init_obs = obs; act = self.choose_action(obs, 0.05);
\* obs, rew, done, _ = self.env.step(act)
TrainStep ==
    /\ pc = "inner"
    /\ InnerGuard(done, step_i)
    /\ init_obs' = obs
    /\ \E c \in ChooseAction(obs, Epsilon), o \in Obs, r \in env_rewards, d \in BOOLEAN :
        /\ act' = c.act
        /\ EnvStep(c.act, o, r, d)
        /\ obs' = o /\ rew' = r /\ done' = d
    /\ phase' = "policy_step"
    /\ pc' = "store"
    /\ UNCHANGED <<bufvars, callvars, dqnvars, evalvars>>
    /\ UNCHANGED <<step_i, warm>>
    /\ UNCHANGED <<learned, stores, terminal>>

\* the inner loop left: the episode is over or the budget is used up
InnerExit ==
    /\ pc = "inner"
    /\ ~InnerGuard(done, step_i)
    /\ pc' = "outer"
    /\ UNCHANGED <<bufvars, callvars, dqnvars, envvars, trainvars, evalvars, histvars>>

\* self.exp_buf.store(init_obs, act, rew, obs, done)
TrainStore ==
    /\ pc = "store"
    /\ StorePrecondition
    /\ StoreWrites(init_obs, act, rew, obs, done)
    /\ terminal' = [terminal EXCEPT ![WriteSlot] = done]
    /\ stores' = stores + 1
    /\ phase' = "stored"
    /\ pc' = AfterStore
    /\ UNCHANGED <<callvars, dqnvars, envvars, trainvars, evalvars>>
    /\ UNCHANGED <<learned, misuse>>

\* ... its assertion failing: train_epoch ends with the AssertionError
TrainStoreFails ==
    /\ pc = "store"
    /\ ~StorePrecondition
    /\ pc' = "AssertionError"
    /\ UNCHANGED <<bufvars, callvars, dqnvars, envvars, trainvars, evalvars, histvars>>

\* self.qnet_opt.zero_grad(); loss = self.qnet_loss(); loss.backward();
\* self.qnet_opt.step(); self.writer.add_scalar("loss", loss, step_num); i += 1.
\* Adam's step may move the parameters to any vector.
LearnerStep ==
    /\ pc = "learn"
    /\ \E d \in SampleOutcomes(BatchSize) :
        IF d.kind = "batch"
        THEN /\ learned' = Minibatch(d.chosen)
             /\ grad' = Backward(Minibatch(d.chosen))
             /\ theta' \in Params
             /\ opt_steps' = opt_steps + 1
             /\ writer' = Append(writer, <<"loss", StepNum(step_i)>>)
             /\ step_i' = step_i + 1
             /\ phase' = "learned"
             /\ pc' = "inner"
        ELSE /\ pc' = d.kind
             /\ UNCHANGED <<learned, grad, theta, opt_steps, writer, step_i, phase>>
    /\ UNCHANGED <<bufvars, callvars, envvars, evalvars>>
    /\ UNCHANGED <<atari, epoch_steps, gamma, epoch>>
    /\ UNCHANGED <<obs, init_obs, act, rew, done, warm>>
    /\ UNCHANGED <<stores, misuse, terminal>>

\* the outer loop left: mean, max = self.evaluate()
CallEvaluate ==
    /\ pc = "outer"
    /\ ~OuterGuard(step_i)
    /\ ep_i' = 0
    /\ rews' = EmptyBag
    /\ pc' = "ev_for"
    /\ UNCHANGED <<bufvars, callvars, dqnvars, envvars, trainvars, histvars>>
    /\ UNCHANGED <<tot_rew, result>>

\* the two eval scalars are written with the epoch as their label; the prints
TrainEpochReturn ==
    /\ pc = "ev_return"
    /\ writer' = writer \o << <<"mean eval reward", epoch>>, <<"max eval reward", epoch>> >>
    /\ result' = "None"
    /\ rews' = EmptyBag
    /\ pc' = "idle"
    /\ UNCHANGED <<bufvars, callvars, envvars, trainvars, histvars>>
    /\ UNCHANGED <<atari, epoch_steps, gamma, epoch, theta, grad, opt_steps>>
    /\ UNCHANGED <<ep_i, tot_rew>>

(***************************************************************************)
(* DQN.evaluate.  Its locals obs, done are its own; train_epoch's are dead *)
(* while it runs and are assigned afresh before they are read again.       *)
(***************************************************************************)
\* mean(rews), as the pair <<sum, number>>, and max(rews)
BagSum(B) == SumOver([e \in BagToSet(B) |-> e * CopiesIn(e, B)], BagToSet(B))
BagMin(B) == CHOOSE m \in BagToSet(B) : \A e \in BagToSet(B) : m <= e
BagMax(B) == CHOOSE m \in BagToSet(B) : \A e \in BagToSet(B) : e <= m
MeanMaxSwapped(B) == [mean |-> <<BagSum(B), BagCardinality(B)>>, max |-> BagMin(B)]
MeanMax(B) == [mean |-> <<BagSum(B), BagCardinality(B)>>, max |-> BagMax(B)]

\* for i in range(times)
EvalGuardShort(n) == n + 1 < Times
EvalGuard(n) == n < Times

\* obs = self.env.reset(); done = False; tot_rew = 0
EvalReset ==
    /\ pc = "ev_for"
    /\ EvalGuard(ep_i)
    /\ \E o \in Obs : EnvReset(o) /\ obs' = o
    /\ done' = FALSE
    /\ tot_rew' = 0
    /\ pc' = "ev_while"
    /\ UNCHANGED <<bufvars, callvars, dqnvars, histvars>>
    /\ UNCHANGED <<step_i, init_obs, act, rew, warm>>
    /\ UNCHANGED <<ep_i, rews, result>>

\* while not done: act = self.choose_action(obs, 0.05);
\* obs, rew, done, _ = self.env.step(act); tot_rew += rew
EvalStep ==
    /\ pc = "ev_while"
    /\ ~done
    /\ \E c \in ChooseAction(obs, Epsilon), o \in Obs, r \in env_rewards, d \in BOOLEAN :
        /\ EnvStep(c.act, o, r, d)
        /\ obs' = o /\ done' = d
        /\ tot_rew' = tot_rew + r
    /\ pc' = "ev_while"
    /\ UNCHANGED <<bufvars, callvars, dqnvars>>
    /\ UNCHANGED <<step_i, init_obs, act, rew, warm>>
    /\ UNCHANGED <<ep_i, rews, result>>
    /\ UNCHANGED <<learned, phase, stores, terminal>>

\* the episode is over: rews.append(tot_rew)
EvalAppend ==
    /\ pc = "ev_while"
    /\ done
    /\ rews' = rews (+) SetToBag({tot_rew})
    /\ ep_i' = ep_i + 1
    /\ pc' = "ev_for"
    /\ UNCHANGED <<bufvars, callvars, dqnvars, envvars, trainvars, histvars>>
    /\ UNCHANGED <<tot_rew, result>>

\* return mean(rews), max(rews)
EvalReturn ==
    /\ pc = "ev_for"
    /\ ~EvalGuard(ep_i)
    /\ result' = MeanMax(rews)
    /\ pc' = "ev_return"
    /\ UNCHANGED <<bufvars, callvars, dqnvars, envvars, trainvars, histvars>>
    /\ UNCHANGED <<ep_i, tot_rew, rews>>

(***************************************************************************)
(* Specifications                                                          *)
(***************************************************************************)
\* the training phase of train_epoch, on environments whose time limit leaves
\* up to MaxEpLen steps after the warm-up
InitTrain ==
    InitDQN({WarmupSteps + MaxEpLen}, Rewards, 0..MaxBufferSize, EpochSteps,
            Gammas, {0})

NextTrain ==
    \/ TrainEpochCall
    \/ TrainReset
    \/ WarmupStep
    \/ TrainStep
    \/ InnerExit
    \/ TrainStore
    \/ TrainStoreFails
    \/ LearnerStep

SpecTrain == InitTrain /\ [][NextTrain]_vars

\* whole train_epoch calls, evaluation included, on environments that pay 1 at
\* each step and whose episodes last 1 or 2 steps
Init ==
    InitDQN({MaxEpLen}, {1}, {0, 1}, EpochSteps, {GammaDefault}, {0})

Next ==
    \/ TrainEpochCall
    \/ TrainReset
    \/ WarmupStep
    \/ TrainStep
    \/ InnerExit
    \/ TrainStore
    \/ TrainStoreFails
    \/ LearnerStep
    \/ CallEvaluate
    \/ EvalReset
    \/ EvalStep
    \/ EvalAppend
    \/ EvalReturn
    \/ TrainEpochReturn

Spec == Init /\ [][Next]_vars

\* the policy called on its own, with any observation and epsilon 0, 0.05 or 1,
\* on a driver holding any parameter vector
Epsilons == {0, Epsilon, RandDen}

InitPolicy ==
    InitDQN({WarmupSteps + MaxEpLen}, Rewards, 0..MaxBufferSize, EpochSteps,
            Gammas, Params)

\* dqn.choose_action(o, eps) returning a, the network evaluated or not
PolicyReturns(o, eps, a, consulted) ==
    /\ pc = "idle"
    /\ [act |-> a, consulted |-> consulted] \in ChooseAction(o, eps)
    /\ ret' = [kind |-> "action", obs |-> o, eps |-> eps, act |-> a,
               consulted |-> consulted]
    /\ UNCHANGED <<bufvars, log, written, dqnvars, envvars, pc>>
    /\ UNCHANGED <<trainvars, evalvars, histvars>>

CallChooseAction ==
    \E o \in Obs, eps \in Epsilons, a \in Actions, consulted \in BOOLEAN :
        PolicyReturns(o, eps, a, consulted)

NextPolicy == CallChooseAction

SpecPolicy == InitPolicy /\ [][NextPolicy]_vars

\* the constructor called for either variant, and the policy called on the
\* driver it returns
InitNew ==
    \E is_atari \in BOOLEAN :
        InitDQNAny(is_atari, {WarmupSteps + MaxEpLen}, Rewards, 0..MaxBufferSize,
                   EpochSteps, Gammas, Params)

NextNew == CallChooseAction

SpecNew == InitNew /\ [][NextNew]_vars

(***************************************************************************)
(* Properties of the ring buffer                                           *)
(***************************************************************************)
SlotHolds(s, t) ==
    /\ init_states[s] = t.init
    /\ actions[s] = t.act
    /\ rewards[s] = t.rew
    /\ next_states[s] = t.next
    /\ non_terminal[s] = (IF t.term THEN 0 ELSE 1)

LogRewards == [k \in 1..Len(log) |-> log[k].rew]
Min(a, b) == IF a < b THEN a ELSE b
ValidCount == IF full THEN size ELSE i

\* C1: the k-th stored transition (0-based) lies in slot k mod capacity until it
\* is overwritten by transition k + capacity, so the buffer holds the most recent
\* `capacity` transitions; capacity 3 and rewards 1,2,3,4 leave [4,2,3], full.
C1_RingOrder ==
    /\ \A k \in 0..(Len(log) - 1) :
          k >= Len(log) - size => SlotHolds(k % size, log[k + 1])
    /\ full <=> (size >= 1 /\ Len(log) >= size)
    /\ (size = 3 /\ LogRewards = <<1, 2, 3, 4>>) =>
          (rewards = (0 :> 4 @@ 1 :> 2 @@ 2 :> 3) /\ full)

C1_Witness == size = 3 /\ LogRewards = <<1, 2, 3, 4>> /\ rewards[0] = 4

\* C2: sample(k) never raises and returns min(k, valid_count) rows at pairwise
\* distinct indexes of the valid range, for every k >= 0 and every buffer state.
C2_SampleClamped ==
    /\ ret.kind # "ValueError"
    /\ ret.kind = "batch" =>
        /\ Len(ret.chosen) = Min(ret.asked, ValidCount)
        /\ Len(ret.rewards) = Min(ret.asked, ValidCount)
        /\ \A a, b \in 1..Len(ret.chosen) : a # b => ret.chosen[a] # ret.chosen[b]
        /\ \A a \in 1..Len(ret.chosen) :
              ret.chosen[a] >= 0 /\ ret.chosen[a] < ValidCount

C2_Witness ==
    /\ ret.kind = "batch"
    /\ ret.asked > ValidCount
    /\ ValidCount = 2
    /\ ~full
    /\ Len(ret.chosen) = 2

C2_WitnessEmpty == ret.kind = "batch" /\ ValidCount = 0 /\ size > 0 /\ ret.asked > 0

\* C3: the valid index range is exactly the set of slots written by a store call,
\* it has min(n, capacity) elements, and no slot of it holds the placeholder.
C3_ValidIsWritten ==
    /\ Indexes = written
    /\ Cardinality(Indexes) = Min(Len(log), size)
    /\ Indexes = (IF full THEN 0..(size - 1) ELSE 0..(i - 1))
    /\ \A s \in Indexes : rewards[s] # 0

C3_Witness == size = 3 /\ Len(log) = 2 /\ Indexes = {0, 1} /\ rewards[2] = 0

\* C7: a store call whose cursor is not strictly below the capacity raises an
\* AssertionError and leaves the buffer as it was; a store call that passes the
\* assertion writes a slot of [0, capacity).
IsStoreCall == ret'.kind \in {"None", "AssertionError"} /\ vars' # vars

C7_StoreFailsLoudly ==
    [][IsStoreCall =>
        IF i < size
        THEN ret'.kind = "None" /\ written' \subseteq 0..(size - 1)
        ELSE ret'.kind = "AssertionError" /\ bufvars' = bufvars]_vars

C7_Witness == ret.kind = "AssertionError" /\ size = 0 /\ i = 0 /\ ~full

\* C11: a successful store writes the five fields of its transition into the
\* slot at the cursor and leaves every other slot as it was, moves the cursor
\* to the next slot modulo the capacity and sets full exactly when the cursor
\* wraps to 0; full never returns to false; sample changes nothing in the
\* buffer.
C11_StoreFrame ==
    [][/\ size' = size
       /\ full => full'
       /\ ret'.kind = "batch" => bufvars' = bufvars
       /\ log' # log =>
            /\ log' = Append(log, log'[Len(log')])
            /\ i < size
            /\ init_states'[i] = log'[Len(log')].init
            /\ actions'[i] = log'[Len(log')].act
            /\ rewards'[i] = log'[Len(log')].rew
            /\ next_states'[i] = log'[Len(log')].next
            /\ non_terminal'[i] = (IF log'[Len(log')].term THEN 0 ELSE 1)
            /\ \A s \in Slots \ {i} :
                  /\ init_states'[s] = init_states[s]
                  /\ actions'[s] = actions[s]
                  /\ rewards'[s] = rewards[s]
                  /\ next_states'[s] = next_states[s]
                  /\ non_terminal'[s] = non_terminal[s]
            /\ DOMAIN init_states' = Slots /\ DOMAIN actions' = Slots
            /\ DOMAIN rewards' = Slots /\ DOMAIN next_states' = Slots
            /\ DOMAIN non_terminal' = Slots
            /\ i' = (i + 1) % size
            /\ full' <=> (full \/ i' = 0)]_vars

C11_Witness ==
    /\ size = 2
    /\ Len(log) = 3
    /\ ret.kind = "None"
    /\ full /\ i = 1
    /\ rewards[0] = log[3].rew
    /\ rewards[1] = log[2].rew
    /\ next_states[1] = log[2].next

\* C12: every row sample returns holds the five fields of one transition that
\* was passed to one store call and is still in the buffer, at the slot the row
\* was drawn from.
C12_RowsAligned ==
    ret.kind = "batch" =>
        \A r \in 1..Len(ret.chosen) :
            \E k \in 1..Len(log) :
                /\ k > Len(log) - size
                /\ (k - 1) % size = ret.chosen[r]
                /\ ret.init_states[r] = log[k].init
                /\ ret.actions[r] = log[k].act
                /\ ret.rewards[r] = log[k].rew
                /\ ret.next_states[r] = log[k].next
                /\ ret.non_terminal[r] = (IF log[k].term THEN 0 ELSE 1)

C12_Witness ==
    /\ ret.kind = "batch"
    /\ Len(ret.chosen) = 2
    /\ Len(log) > size
    /\ ret.rewards[1] # ret.rewards[2]
    /\ ret.actions[1] # ret.actions[2]
    /\ ret.non_terminal[1] # ret.non_terminal[2]

(***************************************************************************)
(* Properties of the learner and the policy                                *)
(***************************************************************************)
LearnedRows == 1..Len(learned.chosen)

\* C4: in every learner step, the bootstrap target of a sampled transition that
\* was stored with is_terminal = true is its reward (here times GammaDen),
\* whatever gamma and the network's value of the next state are.
C4_TerminalTarget ==
    \A r \in LearnedRows :
        learned.terminal[r] =>
            /\ learned.non_terminal[r] = 0
            /\ learned.ys[r] = learned.rewards[r] * GammaDen

C4_Witness ==
    \E r \in LearnedRows :
        /\ learned.terminal[r]
        /\ gamma # 0
        /\ learned.maxq[r] # 0
        /\ learned.rewards[r] = 1
        /\ learned.ys[r] = GammaDen

\* C5: the gradient of a learner step reaches the parameters only through the
\* forward pass on the initial states, never through the one on the next states.
C5_TargetIsConstant == grad.target = FALSE

\* C13: in every learner step, the target of a sampled non-terminal transition
\* is its reward plus gamma times the largest of the action values the network,
\* with the parameters of that step, gives to its next observation (gamma 0.5,
\* reward 1 and next value 10 give 6), and the value regressed onto the target
\* is the one the network gives to the initial observation at the action taken.
C13_BootstrapTarget ==
    \A r \in LearnedRows :
        LET nextqs == Forward(learned.theta, learned.next_states[r])
            all_qs == Forward(learned.theta, learned.init_states[r])
        IN /\ learned.non_terminal[r] = 1 =>
                /\ ~learned.terminal[r]
                /\ \E a \in Actions :
                      /\ \A b \in Actions : nextqs[b] <= nextqs[a]
                      /\ learned.ys[r] =
                            learned.rewards[r] * GammaDen + gamma * nextqs[a]
                /\ (gamma = 50 /\ learned.rewards[r] = 1 /\ learned.maxq[r] = 10) =>
                      learned.ys[r] = 6 * GammaDen
           /\ learned.qs[r] = GammaDen * all_qs[learned.actions[r]]

C13_Witness ==
    \E r \in LearnedRows :
        /\ gamma = 50
        /\ learned.non_terminal[r] = 1
        /\ learned.rewards[r] = 1
        /\ learned.maxq[r] = 10
        /\ learned.ys[r] = 6 * GammaDen
        /\ \E b \in Actions :
              Forward(learned.theta, learned.init_states[r])[b]
                 # Forward(learned.theta, learned.init_states[r])[learned.actions[r]]
        /\ \E b \in Actions :
              Forward(learned.theta, learned.next_states[r])[b] # learned.maxq[r]

\* C6: choose_action returns an action index; with epsilon 0 it returns the first
\* index at which the network's output for the observation is largest; with
\* epsilon 1 it does not evaluate the network, and every index can be returned.
C6_EpsilonGreedy ==
    /\ ret.kind = "action" =>
        /\ ret.act \in Actions
        /\ ret.eps = 0 =>
            /\ ret.consulted
            /\ \A b \in Actions :
                  /\ Forward(theta, ret.obs)[b] <= Forward(theta, ret.obs)[ret.act]
                  /\ b < ret.act =>
                        Forward(theta, ret.obs)[b] < Forward(theta, ret.obs)[ret.act]
        /\ ret.eps = RandDen => ~ret.consulted
    /\ \A o \in Obs, a \in Actions :
        /\ ENABLED PolicyReturns(o, RandDen, a, FALSE)
        /\ ~ENABLED PolicyReturns(o, RandDen, a, TRUE)
        /\ ~ENABLED PolicyReturns(o, 0, a, FALSE)

C6_Witness ==
    /\ ret.kind = "action"
    /\ ret.eps = 0
    /\ ret.act = 1
    /\ Forward(theta, ret.obs)[0] < Forward(theta, ret.obs)[1]

C6_WitnessTie ==
    /\ ret.kind = "action" /\ ret.eps = 0 /\ ret.act = 0
    /\ Forward(theta, ret.obs)[0] = Forward(theta, ret.obs)[1]

\* C15: the constructor succeeds for the vector and for the visual variant and
\* leaves an empty replay store (cursor 0, not full, nothing to sample) of
\* capacity buffer_size.
C15_BothVariantsConstruct ==
    /\ pc # "TypeError"
    /\ i = 0 /\ ~full /\ Indexes = {}
    /\ size \in 0..MaxBufferSize
    /\ DOMAIN init_states = Slots /\ DOMAIN next_states = Slots

(***************************************************************************)
(* Properties of train_epoch and evaluate                                  *)
(***************************************************************************)
WarmupStepCalled == pc = "warmup" /\ warm' = warm + 1
PolicyStepCalled == pc = "inner" /\ pc' = "store"
StoreDone == stores' = stores + 1
LearnerStepDone == opt_steps' = opt_steps + 1

\* C8 as stated: every env.step call of train_epoch, the warm-up ones included,
\* is followed before the next env.step by one store and then one learner step.
C8_EveryStepStoredAndLearned ==
    [][/\ (WarmupStepCalled \/ PolicyStepCalled) => phase \in {"idle", "learned"}
       /\ StoreDone => phase \in {"warmup_step", "policy_step"}
       /\ LearnerStepDone => phase = "stored"]_vars

\* C8 as amended: every env.step call that applies an action of the policy is
\* followed, before the next env.step of either kind, by exactly one store and
\* then exactly one learner step (a store that raises ends train_epoch); the
\* warm-up env.step(0) calls are followed by neither.
C8_PolicyStepStoredAndLearned ==
    [][/\ (WarmupStepCalled \/ PolicyStepCalled) =>
            phase \in {"idle", "learned", "warmup_step"}
       /\ StoreDone => phase = "policy_step"
       /\ LearnerStepDone => phase = "stored"
       /\ phase' = "stored" => (phase = "policy_step" /\ StoreDone)
       /\ (phase' = "learned" /\ phase # "learned") =>
            (phase = "stored" /\ LearnerStepDone)]_vars

C8_Witness ==
    /\ pc = "store"
    /\ phase = "policy_step"
    /\ stores = 1
    /\ opt_steps = 1
    /\ env_t > 1

\* the slot written by the latest store
LastSlot == (i + size - 1) % size

\* C16: every learner step of train_epoch follows a store, so its sample is
\* never taken from an empty buffer; the minibatch of the t-th learner step has
\* min(100, t, capacity) rows, and the transition stored just before it is
\* among the rows that can be drawn.
C16_LearnerBatch ==
    /\ pc # "ValueError"
    /\ stores \in {opt_steps, opt_steps + 1}
    /\ opt_steps >= 1 =>
          /\ Len(learned.chosen) = Min(BatchSize, Min(opt_steps, size))
          /\ Len(learned.chosen) >= 1
    /\ pc = "learn" =>
          /\ stores = opt_steps + 1
          /\ Cardinality(Indexes) = Min(stores, size)
          /\ LastSlot \in Indexes
          /\ init_states[LastSlot] = init_obs /\ actions[LastSlot] = act
          /\ rewards[LastSlot] = rew /\ next_states[LastSlot] = obs
          /\ non_terminal[LastSlot] = (IF done THEN 0 ELSE 1)

C16_Witness ==
    /\ opt_steps = 2
    /\ size = 2
    /\ Len(learned.chosen) = 2
    /\ learned.chosen[1] = 1
    /\ pc = "inner"

\* C17: the initial observation of every transition train_epoch stores is the
\* observation the environment returned last before the action was applied,
\* its next observation is the one that step returned, the stored row holds
\* the locals of that step, and within an episode the next observation of a
\* stored transition is the initial observation of the following one.
C17_TrueTransitions ==
    [][/\ PolicyStepCalled =>
            /\ init_obs' = env_obs
            /\ obs' = env_obs'
            /\ phase = "learned" => init_obs' = next_states[LastSlot]
       /\ StoreDone =>
            /\ init_states'[i] = init_obs /\ actions'[i] = act
            /\ rewards'[i] = rew /\ next_states'[i] = obs
            /\ non_terminal'[i] = (IF done THEN 0 ELSE 1)
            /\ next_states'[i] = env_obs]_vars

TrainPcs == {"outer", "warmup", "inner", "store", "learn"}
EvalPcs == {"ev_for", "ev_while", "ev_return"}
EvalRecords == {k \in 1..Len(writer) : writer[k][1] = "mean eval reward"}

\* C9 as stated: whatever the environment does, the training phase of a
\* train_epoch call ends after exactly epoch_steps store-and-learn steps and is
\* followed by the evaluation.
C9_TrainingEndsOnBudget ==
    (epoch >= 1 /\ pc \notin TrainPcs) =>
        (step_i = epoch_steps /\ stores = epoch * epoch_steps)

\* position of train_epoch within one pass of its loops, counted from the end
Rank ==
    CASE pc = "learn" -> 1
      [] pc = "store" -> 2
      [] pc = "inner" /\ ~done /\ step_i < epoch_steps -> 3
      [] pc = "warmup" -> 3 + (WarmupSteps - warm)
      [] pc = "outer" -> 4 + WarmupSteps
      [] pc = "inner" /\ ~(~done /\ step_i < epoch_steps) -> 5 + WarmupSteps
      [] OTHER -> 0
Variant == (epoch_steps - step_i) * (6 + WarmupSteps) + Rank

\* C9 as amended: with a replay store of capacity >= 1, the training phase ends
\* after exactly epoch_steps store-and-learn steps (every step of it lowers
\* Variant, which is never negative), it resets the environment when an episode
\* ends with budget left, stops at once when the budget is used up, and the
\* evaluation is then run exactly once.
C9_BudgetExact ==
    /\ [](size >= 1 =>
            /\ step_i <= epoch_steps
            /\ pc # "AssertionError"
            /\ (epoch >= 1 /\ pc \notin TrainPcs) =>
                  (step_i = epoch_steps /\ stores = epoch * epoch_steps
                   /\ opt_steps = epoch * epoch_steps)
            /\ pc \in TrainPcs =>
                  (Variant >= 0 /\ Cardinality(EvalRecords) = epoch - 1
                   /\ stores - (epoch - 1) * epoch_steps \in {step_i, step_i + 1})
            /\ pc \in EvalPcs => Cardinality(EvalRecords) = epoch - 1
            /\ pc = "idle" => Cardinality(EvalRecords) = epoch)
    /\ [][size >= 1 =>
            /\ (pc \in TrainPcs /\ pc' \in TrainPcs) => Variant' < Variant
            /\ (pc \in TrainPcs /\ pc' \notin TrainPcs) =>
                  (pc' = "ev_for" /\ step_i = epoch_steps)
            /\ (pc = "inner" /\ pc' = "outer" /\ step_i < epoch_steps) => done
            /\ (pc = "inner" /\ step_i = epoch_steps) => pc' = "outer"]_vars

C9_Witness ==
    /\ pc = "warmup"
    /\ size = 1
    /\ epoch = 2
    /\ epoch_steps = 2
    /\ step_i = 1
    /\ stores = 3
    /\ Cardinality(EvalRecords) = 1

IsLoss(w) == w[1] = "loss"
IsMeanEval(w) == w[1] = "mean eval reward"
IsMaxEval(w) == w[1] = "max eval reward"
LossRecords == SelectSeq(writer, IsLoss)
MeanEvalRecords == SelectSeq(writer, IsMeanEval)
MaxEvalRecords == SelectSeq(writer, IsMaxEval)

\* C14: the epoch counter changes only at the start of a train_epoch call, by
\* one; the labels of the loss records are 0, 1, 2, ... in the order written,
\* across calls; the eval records of the k-th call carry the label k.
C14_EpochLabels ==
    /\ [](/\ \A j \in 1..Len(LossRecords) : LossRecords[j][2] = j - 1
          /\ \A k \in 1..Len(MeanEvalRecords) : MeanEvalRecords[k][2] = k
          /\ \A k \in 1..Len(MaxEvalRecords) : MaxEvalRecords[k][2] = k
          /\ Len(MaxEvalRecords) = Len(MeanEvalRecords)
          /\ Len(MeanEvalRecords) \in {epoch - 1, epoch}
          /\ Len(writer) =
                Len(LossRecords) + Len(MeanEvalRecords) + Len(MaxEvalRecords))
    /\ [][/\ epoch' # epoch => (pc = "idle" /\ epoch' = epoch + 1)
          /\ (pc = "idle" /\ pc' # "idle") => (pc' = "outer" /\ epoch' = epoch + 1)
          /\ Len(MeanEvalRecords') > Len(MeanEvalRecords) =>
                (Len(MeanEvalRecords') = epoch /\ epoch' = epoch)]_vars

C14_Witness ==
    /\ pc = "idle"
    /\ epoch = 2
    /\ epoch_steps = 2
    /\ Len(LossRecords) = 4
    /\ LossRecords[3][2] = 2
    /\ Len(MeanEvalRecords) = 2
    /\ writer[Len(writer)] = <<"max eval reward", 2>>

\* C18: train_epoch and evaluate never call env.step on an episode that an
\* earlier env.step has ended, without a reset in between, and whenever env.step
\* reports the end of the episode the driver's done records it.
C18_StepResetContract ==
    /\ [](~misuse)
    /\ [][(~env_over /\ env_over') => done']_vars

\* C10: evaluate runs exactly Times = 20 episodes, each from a reset until the
\* environment reports done, changes neither the replay store nor the network
\* parameters, their gradients, the optimizer or the epoch counter, and returns
\* the mean and the maximum of the 20 episode sums.
C10_EvaluateFrame ==
    /\ [](/\ pc \in EvalPcs => (ep_i <= Times /\ BagCardinality(rews) = ep_i)
          /\ pc = "ev_while" => (done <=> env_over) /\ tot_rew = env_t
          /\ pc = "ev_return" =>
                /\ ep_i = Times
                /\ result.mean = <<BagSum(rews), Times>>
                /\ result.max \in BagToSet(rews)
                /\ \A e \in BagToSet(rews) : e <= result.max)
    /\ [][(pc \in EvalPcs) =>
            /\ UNCHANGED <<bufvars, theta, grad, opt_steps, epoch, stores>>
            /\ pc' \in EvalPcs \/ (pc = "ev_return" /\ pc' = "idle")
            /\ ep_i' # ep_i => (ep_i' = ep_i + 1 /\ done /\ env_over)
            /\ (pc = "ev_for" /\ pc' = "ev_while") =>
                  (env_t' = 0 /\ env_over' = FALSE)]_vars

C10_Witness ==
    /\ pc = "ev_return"
    /\ stores = 1
    /\ BagToSet(rews) = {1, 2}
    /\ result.max = 2
    /\ result.mean[1] = 25

====
